---------------------------- MODULE Spec2Model ----------------------------
(***************************************************************************)
(* Model of the padelspot-backend polling worker: scheduler_loop and       *)
(* process_alert (src/app/workers/scraper_worker.py) over the user_alerts  *)
(* and detected_slots tables (src/app/models/models.py), with the upstream *)
(* fetch (src/app/services/doinsport_scraper.py) and the notification      *)
(* call (src/app/services/email_service.py) as nondeterministic inputs.    *)
(*                                                                         *)
(* Time is counted in whole minutes (now) and whole days (today).          *)
(***************************************************************************)
EXTENDS Integers, Sequences, FiniteSets, Bags, TLC

(***************************************************************************)
(* Bounds of the model.                                                    *)
(***************************************************************************)
\* last minute of the clock
MaxNow == 3
\* number of owner requests (update_alert, delete_alert) in a behaviour
MaxEdits == 1
\* last day of the calendar
MaxDay == 1
\* longest upstream response (number of bookable price options returned)
MaxLen == 2
\* largest number of courts in an upstream body
MaxCourts == 2
\* largest number of alerts a user has stored
MaxStored == 3
\* largest number of PATCH and DELETE requests to the alert routes
MaxRequests == 2
\* largest days_ahead of a scan_multiple_days call
MaxAhead == 3

(***************************************************************************)
(* Program constants.                                                      *)
(***************************************************************************)
\* None in a nullable column (last_checked_at)
NULL == -1
\* settings.WORKER_CHECK_INTERVAL, 60 seconds, in minutes
WORKER_CHECK_INTERVAL == 1
\* PLAN_QUOTAS[...]["check_interval_minutes"]
FreeInterval == 10
PremiumInterval == 3
\* settings.PADEL_ACTIVITY_ID
PADEL_ACTIVITY_ID == 1
\* scan_multiple_days: await asyncio.sleep(1), in seconds
PacingDelay == 1

AlertIds == {1, 2}
Dates == 0..MaxDay

\* What a club can offer: <<playground_id, start_time, <<price_total,
\* duration_minutes>>>> of a bookable price option.  RichFeed has two price
\* options of the same playground and start time, and a second playground;
\* TinyFeed has the two price options only.
RichFeed == {<<1, 1, <<40, 90>>>>, <<1, 1, <<30, 60>>>>, <<2, 1, <<40, 90>>>>}
TinyFeed == {<<1, 1, <<40, 90>>>>, <<1, 1, <<30, 60>>>>}

(***************************************************************************)
(* A candidate slot as get_available_slots emits it: one per bookable      *)
(* price option; its date is the date the fetch was asked for.             *)
(***************************************************************************)
Candidate(p, d, t, v) ==
    [playground_id |-> p, date |-> d, start_time |-> t,
     price_total |-> v[1], duration_minutes |-> v[2]]

CandidatesOn(offers, d) ==
    {Candidate(o[1], d, o[2], o[3]) : o \in offers}

\* every list of at most MaxLen candidates for date d, each bookable price
\* option listed once
ResponsesOn(offers, d) ==
    UNION {{q \in [1..n -> CandidatesOn(offers, d)] :
               \A x, y \in 1..n : x # y => q[x] # q[y]} : n \in 0..MaxLen}

VARIABLES
    now,        \* datetime.now(), in minutes
    today,      \* datetime.now().date(), as a day number
    alerts,     \* table user_alerts: alert id -> row
    detected,   \* table detected_slots: a bag of rows (no unique constraint)
    pc,         \* position of the worker
    loaded,     \* scheduler_loop: the alerts loaded by the running pass
    i,          \* scheduler_loop: index into loaded
    cur,        \* process_alert: alert_id
    is_baseline,\* process_alert: is_baseline
    slots,      \* process_alert: slots returned by the fetch
    k,          \* process_alert: index into slots
    pending,    \* process_alert: rows added to the session, not yet committed
    attempts,   \* history: bag of keys send_slot_notification was called for
    run,        \* history: what the current/last process_alert run did
    first_avail,\* history: keys the club offered at an alert's baseline scan
    invoked,    \* history: the alerts process_alert was called for in the pass
    pass_day,   \* history: the date when the pass loaded the alerts
    edits,      \* number of owner requests so far
    feed,       \* what the club of each alert can offer
    response,   \* get_available_slots: what the upstream call comes back with
    indoor_only,\* get_available_slots: the indoor_only argument
    result,     \* get_available_slots: how the call ended
    subscription,\* create_alert: the plan of the user's subscription, if any
    request,    \* create_alert: the body of the last request
    reply,      \* create_alert: the status of the last reply
    billing,    \* tables subscriptions, user_boosts, boost_purchases (Stripe)
    scan        \* scan_multiple_days: the run in progress or ended

vars == <<now, today, alerts, detected, pc, loaded, i, cur, is_baseline,
          slots, k, pending, attempts, run, first_avail, invoked, pass_day,
          edits, feed, response, indoor_only, result, subscription,
          request, reply, billing, scan>>

\* the variables no step of the worker changes
env == <<edits, feed>>

\* a call of the fetcher, outside of a worker run
api == <<subscription, request, reply, billing>>
io == <<response, indoor_only, result, api, scan>>

\* the history of the pass
pass == <<invoked, pass_day>>

(***************************************************************************)
(* The deduplication key of a row or candidate for an alert.               *)
(***************************************************************************)
Key(a, s) ==
    [alert_id |-> a, playground_id |-> s.playground_id,
     date |-> s.date, start_time |-> s.start_time]

RowKey(r) == Key(r.alert_id, r)

\* DetectedSlot(...) as process_alert builds it; email_sent defaults to False
NewRow(a, s) ==
    [alert_id |-> a, playground_id |-> s.playground_id, date |-> s.date,
     start_time |-> s.start_time, price_total |-> s.price_total,
     duration_minutes |-> s.duration_minutes, email_sent |-> FALSE]

\* a variant of the "existing" query that also compares the price and the
\* duration, against which the price-change property (C7) is tested
ExistingCountWithPrice(rows, a, s) ==
    LET match == {r \in BagToSet(rows) :
                     r = [NewRow(a, s) EXCEPT !.email_sent = r.email_sent]}
        RECURSIVE Sum(_)
        Sum(S) == IF S = {} THEN 0
                  ELSE LET r == CHOOSE x \in S : TRUE
                       IN CopiesIn(r, rows) + Sum(S \ {r})
    IN Sum(match)

\* number of committed rows the "existing" query of process_alert matches
ExistingCount(rows, a, s) ==
    LET match == {r \in BagToSet(rows) : RowKey(r) = Key(a, s)}
        RECURSIVE Sum(_)
        Sum(S) == IF S = {} THEN 0
                  ELSE LET r == CHOOSE x \in S : TRUE
                       IN CopiesIn(r, rows) + Sum(S \ {r})
    IN Sum(match)

\* scheduler_loop: whether a loaded alert is processed in this pass
IsDue(last_checked_at, check_interval_minutes, t) ==
    IF last_checked_at # NULL
    THEN ~((t - last_checked_at) < check_interval_minutes)
    ELSE TRUE

\* a variant that also counts today as passed, against which the
\* deactivation property (C9) is tested
DatePassedOrToday(target_date, d) == target_date <= d

\* process_alert: whether the target date is passed
DatePassed(target_date, d) == target_date < d

\* a variant that notifies in baseline runs too, against which the baseline
\* property (C3) is tested
ShouldNotifyAlways(baseline) == TRUE

\* process_alert: whether a new slot is notified
ShouldNotify(baseline) == ~baseline

\* one more call of send_slot_notification for key q in the history, which
\* counts 0, 1, 2 or more
Attempt(q) ==
    IF CopiesIn(q, attempts) < 2
    THEN attempts (+) SetToBag({q})
    ELSE attempts

\* history of the current or last process_alert run: the alert, the target
\* date it fetched for (NULL when it fetched nothing), is_baseline,
\* the list fetched, the keys the club really offered, the number of fetched
\* candidates whose key had no row, of notification attempts (new slots that
\* reached the notification branch), of calls of send_slot_notification
\* among them and of rows committed, how it ended ("committed", "inactive", "deactivated", or with an
\* exception: "multiple" for MultipleResultsFound, "stale" for a deleted
\* alert, "lost" for a persistence error), and whether it fetched the same
\* list as the run of the same alert just before it
NoRun == [alert |-> 0, date |-> NULL, baseline |-> FALSE, fetched |-> <<>>,
          offered |-> {},
          fresh |-> 0, sends |-> 0, calls |-> 0, added |-> 0,
          state |-> "none", repeat |-> FALSE]

(***************************************************************************)
(* Initial state: the worker starts on a database holding alerts as        *)
(* create_alert leaves them (active, no baseline, never checked).          *)
(***************************************************************************)
NewAlert(d, iv) ==
    [target_date |-> d, is_active |-> TRUE, check_interval_minutes |-> iv,
     baseline_scraped |-> FALSE, last_checked_at |-> NULL]

\* a JSON string where the code expects an object
JsonStr == [type |-> "str"]

\* before any call of get_available_slots
NoResponse == [kind |-> "none", data |-> JsonStr]
NoResult == [called |-> FALSE, raised |-> FALSE, date |-> 0, out |-> <<>>]

\* before any call of scan_multiple_days
NoScan == [state |-> "none"]

\* no call of the fetcher outside of the worker runs
IdleScraper ==
    /\ response = NoResponse
    /\ indoor_only = "none"
    /\ result = NoResult
    /\ scan = NoScan

\* before any request to create_alert
NoRequest ==
    [target_date |-> 0, time_from |-> 0, time_to |-> 0, club_known |-> FALSE]

\* the user has no row in subscriptions, user_boosts or boost_purchases
NoBilling ==
    [status |-> "none", stripe_subscription_id |-> NULL,
     boost_count |-> NULL, purchases |-> <<>>, paid |-> {}]

\* the billing rows of a user whose subscription has the given plan
BillingOf(sub) ==
    IF sub = "none" THEN NoBilling ELSE [NoBilling EXCEPT !.status = "active"]

\* no request reaches the API
IdleApi ==
    /\ subscription = "none"
    /\ request = NoRequest
    /\ reply = 0
    /\ billing = BillingOf(subscription)

InitWorker ==
    /\ now = 0
    /\ today = 0
    /\ detected = EmptyBag
    /\ pc = "pass"
    /\ loaded = <<>>
    /\ i = 1
    /\ cur = 0
    /\ is_baseline = FALSE
    /\ slots = <<>>
    /\ k = 1
    /\ pending = <<>>
    /\ attempts = EmptyBag
    /\ run = NoRun
    /\ first_avail = {}
    /\ invoked = {}
    /\ pass_day = 0
    /\ edits = 0

\* The alerts were created the day before (min_days_ahead = 1) for today.
\* deduplication scenario: one premium alert on a club with a rich offer
Init ==
    /\ InitWorker
    /\ alerts = [a \in {1} |-> NewAlert(0, PremiumInterval)]
    /\ feed = [a \in AlertIds |-> RichFeed]
    /\ IdleScraper
    /\ IdleApi

\* scheduling scenario: a premium and a free alert on clubs with a small offer
InitSched ==
    /\ InitWorker
    /\ alerts = [a \in AlertIds |->
                   NewAlert(0, IF a = 1 THEN PremiumInterval ELSE FreeInterval)]
    /\ feed = [a \in AlertIds |-> TinyFeed]
    /\ IdleScraper
    /\ IdleApi

(***************************************************************************)
(* scheduler_loop                                                          *)
(***************************************************************************)
\* every order in which the rows of a set of alert ids can be returned
Orderings(S) ==
    {f \in [1..Cardinality(S) -> S] : \A x, y \in 1..Cardinality(S) :
                                          x # y => f[x] # f[y]}

\* the ORM object of an alert as the pass loaded it
Loaded(a) ==
    [id |-> a, target_date |-> alerts[a].target_date,
     last_checked_at |-> alerts[a].last_checked_at,
     check_interval_minutes |-> alerts[a].check_interval_minutes]

ActiveIds == {a \in DOMAIN alerts : alerts[a].is_active}

\* select(UserAlert).where(UserAlert.is_active == True)
PassLoad ==
    /\ pc = "pass"
    /\ \E f \in Orderings(ActiveIds) :
           loaded' = [x \in 1..Len(f) |-> Loaded(f[x])]
    /\ i' = 1
    /\ pc' = "for"
    /\ invoked' = {}
    /\ pass_day' = today
    /\ UNCHANGED <<now, today, alerts, detected, cur, is_baseline, slots, k,
                   pending, attempts, run, first_avail, env, io>>

\* the load query raises: caught by the pass-level except
PassLoadRaise ==
    /\ pc = "pass"
    /\ pc' = "backoff"
    /\ UNCHANGED <<now, today, alerts, detected, loaded, i, cur, is_baseline,
                   slots, k, pending, attempts, run, first_avail, pass, env, io>>

\* for alert in alerts: ... continue
ForSkip ==
    /\ pc = "for"
    /\ i <= Len(loaded)
    /\ ~IsDue(loaded[i].last_checked_at, loaded[i].check_interval_minutes, now)
    /\ i' = i + 1
    /\ UNCHANGED <<now, today, alerts, detected, pc, loaded, cur, is_baseline,
                   slots, k, pending, attempts, run, first_avail, pass, env, io>>

\* for alert in alerts: ... await process_alert(str(alert.id))
ForInvoke ==
    /\ pc = "for"
    /\ i <= Len(loaded)
    /\ IsDue(loaded[i].last_checked_at, loaded[i].check_interval_minutes, now)
    /\ cur' = loaded[i].id
    /\ pc' = "pa_load"
    /\ invoked' = invoked \cup {loaded[i].id}
    /\ UNCHANGED <<now, today, alerts, detected, loaded, i, is_baseline,
                   slots, k, pending, attempts, run, first_avail, pass_day,
                   env, io>>

\* the for loop is exhausted: the pass ends and the loop sleeps
ForDone ==
    /\ pc = "for"
    /\ i > Len(loaded)
    /\ pc' = "sleep"
    /\ UNCHANGED <<now, today, alerts, detected, loaded, i, cur, is_baseline,
                   slots, k, pending, attempts, run, first_avail, pass, env, io>>

\* await asyncio.sleep(settings.WORKER_CHECK_INTERVAL)
Sleep ==
    /\ pc = "sleep"
    /\ now + WORKER_CHECK_INTERVAL <= MaxNow
    /\ now' = now + WORKER_CHECK_INTERVAL
    /\ pc' = "pass"
    /\ loaded' = <<>>
    /\ i' = 1
    /\ invoked' = {}
    /\ UNCHANGED <<today, alerts, detected, cur, is_baseline, slots, k,
                   pending, attempts, run, first_avail, pass_day, env, io>>

\* a variant in which the except clause leaves the loop, against which the
\* property that the loop goes on (C11) is tested
BackoffExit ==
    /\ pc = "backoff"
    /\ pc' = "exit"
    /\ UNCHANGED <<now, today, alerts, detected, loaded, i, cur, is_baseline,
                   slots, k, pending, attempts, run, first_avail, pass, env, io>>

\* except Exception: await asyncio.sleep(10)   (10 s: less than a minute)
Backoff ==
    /\ pc = "backoff"
    /\ pc' = "pass"
    /\ loaded' = <<>>
    /\ i' = 1
    /\ invoked' = {}
    /\ UNCHANGED <<now, today, alerts, detected, cur, is_baseline, slots, k,
                   pending, attempts, run, first_avail, pass_day, env, io>>

(***************************************************************************)
(* process_alert                                                           *)
(***************************************************************************)
\* a variant in which the for loop stays on the same alert, against which
\* the sequential processing in loaded order (C26) is tested
ReturnSameAlert ==
    /\ pc' = "for"
    /\ i' = i
    /\ cur' = 0
    /\ is_baseline' = FALSE
    /\ slots' = <<>>
    /\ k' = 1
    /\ pending' = <<>>

\* process_alert returns: its locals are gone, the for loop goes on
Return ==
    /\ pc' = "for"
    /\ i' = i + 1
    /\ cur' = 0
    /\ is_baseline' = FALSE
    /\ slots' = <<>>
    /\ k' = 1
    /\ pending' = <<>>

\* process_alert raises: the session is rolled back and the exception reaches
\* the except of scheduler_loop, which ends the pass
Raise ==
    /\ pc' = "backoff"
    /\ cur' = 0
    /\ is_baseline' = FALSE
    /\ slots' = <<>>
    /\ k' = 1
    /\ pending' = <<>>

\* a variant that does not look at is_active, against which the property
\* that inactive alerts are not scanned (C23) is tested
FoundWhateverActive(a) == a \in DOMAIN alerts

\* process_alert: "alert and alert.is_active" for the row selected by id
Found(a) == IF a \in DOMAIN alerts THEN alerts[a].is_active ELSE FALSE

\* if not alert or not alert.is_active: return
PaInactive ==
    /\ pc = "pa_load"
    /\ ~Found(cur)
    /\ Return
    /\ run' = [NoRun EXCEPT !.alert = cur, !.state = "inactive"]
    /\ UNCHANGED <<now, today, alerts, detected, loaded, attempts, first_avail,
                   pass, env, io>>

\* if alert.target_date < datetime.now().date(): deactivate, commit, return
PaDeactivate ==
    /\ pc = "pa_load"
    /\ Found(cur)
    /\ DatePassed(alerts[cur].target_date, today)
    /\ alerts' = [alerts EXCEPT ![cur].is_active = FALSE]
    /\ Return
    /\ run' = [NoRun EXCEPT !.alert = cur, !.state = "deactivated"]
    /\ UNCHANGED <<now, today, detected, loaded, attempts, first_avail, pass,
                   env, io>>

\* the keys of a list of candidates for alert a
Keys(a, q) == {Key(a, q[x]) : x \in 1..Len(q)}

\* is_baseline = not alert.baseline_scraped; slots = await get_available_slots
\* for alert.target_date.  avail is what the club really offers; a failed
\* fetch (timeout, non-200, malformed body) returns [].
PaFetch ==
    /\ pc = "pa_load"
    /\ Found(cur)
    /\ ~DatePassed(alerts[cur].target_date, today)
    /\ is_baseline' = ~alerts[cur].baseline_scraped
    /\ \E avail \in ResponsesOn(feed[cur], alerts[cur].target_date),
          ok \in BOOLEAN :
         /\ slots' = IF ok THEN avail ELSE <<>>
         /\ run' = [alert |-> cur, date |-> alerts[cur].target_date,
                    baseline |-> is_baseline',
                    fetched |-> slots', offered |-> Keys(cur, avail),
                    fresh |-> Cardinality({x \in 1..Len(slots') :
                                 ExistingCount(detected, cur, slots'[x]) = 0}),
                    sends |-> 0, calls |-> 0, added |-> 0,
                    state |-> "running",
                    repeat |-> /\ run.alert = cur
                               /\ run.state \in {"committed", "multiple"}
                               /\ run.fetched = slots']
    /\ k' = 1
    /\ pending' = <<>>
    /\ pc' = "pa_slot"
    /\ UNCHANGED <<now, today, alerts, detected, loaded, i, cur, attempts,
                   first_avail, pass, env, io>>

\* if existing.scalar_one_or_none(): continue
PaSkipExisting ==
    /\ pc = "pa_slot"
    /\ k <= Len(slots)
    /\ ExistingCount(detected, cur, slots[k]) = 1
    /\ k' = k + 1
    /\ UNCHANGED <<now, today, alerts, detected, pc, loaded, i, cur,
                   is_baseline, slots, pending, attempts, run, first_avail,
                   pass, env, io>>

\* existing.scalar_one_or_none() raises MultipleResultsFound
PaMultipleRaise ==
    /\ pc = "pa_slot"
    /\ k <= Len(slots)
    /\ ExistingCount(detected, cur, slots[k]) > 1
    /\ Raise
    /\ run' = [run EXCEPT !.state = "multiple"]
    /\ UNCHANGED <<now, today, alerts, detected, loaded, i, attempts,
                   first_avail, pass, env, io>>

\* db.add(detected_slot); then, unless baseline, the notification, with
\* outcome "sent" (send_slot_notification returned True), "failed" (it
\* returned False) or "nouser" (the recipient is not resolved, and
\* send_slot_notification is not called).  Each is one notification attempt;
\* email_sent is set only when sent.
PaRecord ==
    /\ pc = "pa_slot"
    /\ k <= Len(slots)
    /\ ExistingCount(detected, cur, slots[k]) = 0
    /\ IF ShouldNotify(is_baseline)
       THEN \E out \in {"sent", "failed", "nouser"} :
              /\ pending' = Append(pending,
                     [NewRow(cur, slots[k]) EXCEPT !.email_sent = (out = "sent")])
              /\ attempts' = IF out = "nouser" THEN attempts
                              ELSE Attempt(Key(cur, slots[k]))
              /\ run' = [run EXCEPT
                            !.sends = run.sends + 1,
                            !.calls = IF out = "nouser" THEN @ ELSE @ + 1]
       ELSE /\ pending' = Append(pending, NewRow(cur, slots[k]))
            /\ UNCHANGED <<attempts, run>>
    /\ k' = k + 1
    /\ UNCHANGED <<now, today, alerts, detected, pc, loaded, i, cur,
                   is_baseline, slots, first_avail, pass, env, io>>

\* the bag of the rows of a sequence
SeqToBag(q) ==
    LET RECURSIVE Acc(_)
        Acc(n) == IF n = 0 THEN EmptyBag
                  ELSE Acc(n - 1) (+) SetToBag({q[n]})
    IN Acc(Len(q))

\* the commit finds the alert deleted: the UPDATE matches no row and the
\* INSERTs reference no alert, so the flush raises
PaStaleRaise ==
    /\ pc = "pa_slot"
    /\ k > Len(slots)
    /\ cur \notin DOMAIN alerts
    /\ Raise
    /\ run' = [run EXCEPT !.state = "stale"]
    /\ UNCHANGED <<now, today, alerts, detected, loaded, i, attempts,
                   first_avail, pass, env, io>>

\* if is_baseline: alert.baseline_scraped = True
\* alert.last_checked_at = datetime.now(); await db.commit()
PaCommit ==
    /\ pc = "pa_slot"
    /\ k > Len(slots)
    /\ cur \in DOMAIN alerts
    /\ alerts' = [alerts EXCEPT
                    ![cur].baseline_scraped = IF is_baseline THEN TRUE ELSE @,
                    ![cur].last_checked_at = now]
    /\ detected' = detected (+) SeqToBag(pending)
    /\ Return
    /\ run' = [run EXCEPT !.state = "committed",
                          !.added = BagCardinality(detected')
                                    - BagCardinality(detected)]
    /\ first_avail' = IF is_baseline THEN first_avail \cup run.offered
                      ELSE first_avail
    /\ UNCHANGED <<now, today, loaded, attempts, pass, env, io>>

\* a persistence error (connection loss) at a database call of process_alert
PaRaise ==
    /\ pc \in {"pa_load", "pa_slot"}
    /\ Raise
    /\ run' = IF pc = "pa_load"
              THEN [NoRun EXCEPT !.alert = cur, !.state = "lost"]
              ELSE [run EXCEPT !.state = "lost"]
    /\ UNCHANGED <<now, today, alerts, detected, loaded, i, attempts,
                   first_avail, pass, env, io>>

(***************************************************************************)
(* The environment.                                                        *)
(***************************************************************************)
\* the date changes
Midnight ==
    /\ today < MaxDay
    /\ today' = today + 1
    /\ UNCHANGED <<now, alerts, detected, pc, loaded, i, cur, is_baseline,
                   slots, k, pending, attempts, run, first_avail, pass, env, io>>

(***************************************************************************)
(* The owner's requests (src/app/api/routes/alerts.py), each one step.     *)
(***************************************************************************)
\* update_alert with {"is_active": b}: pause or resume (a request that
\* repeats the stored value changes nothing and is left out)
UpdateActive(a, b) ==
    /\ edits < MaxEdits
    /\ a \in DOMAIN alerts
    /\ alerts[a].is_active # b
    /\ alerts' = [alerts EXCEPT ![a].is_active = b]
    /\ edits' = edits + 1
    /\ UNCHANGED <<now, today, detected, pc, loaded, i, cur, is_baseline,
                   slots, k, pending, attempts, run, first_avail, pass, feed, io>>

\* update_alert with {"target_date": d}: resets the baseline
UpdateTargetDate(a, d) ==
    /\ edits < MaxEdits
    /\ a \in DOMAIN alerts
    /\ alerts' = [alerts EXCEPT ![a].target_date = d,
                                ![a].baseline_scraped = FALSE]
    /\ edits' = edits + 1
    /\ UNCHANGED <<now, today, detected, pc, loaded, i, cur, is_baseline,
                   slots, k, pending, attempts, run, first_avail, pass, feed, io>>

\* update_alert with {"target_date": d, "is_active": true}: resumes the alert
\* on a new target date
UpdateResume(a, d) ==
    /\ edits < MaxEdits
    /\ a \in DOMAIN alerts
    /\ ~alerts[a].is_active
    /\ alerts' = [alerts EXCEPT ![a].target_date = d,
                                ![a].baseline_scraped = FALSE,
                                ![a].is_active = TRUE]
    /\ edits' = edits + 1
    /\ UNCHANGED <<now, today, detected, pc, loaded, i, cur, is_baseline,
                   slots, k, pending, attempts, run, first_avail, pass, feed, io>>

\* a variant without the cascade, against which the cascade on delete (C24)
\* is tested
WithAlert(B, a) == B

\* the bag B without the rows of alert a
WithoutAlert(B, a) ==
    LET keep == {r \in BagToSet(B) : r.alert_id # a}
    IN [r \in keep |-> CopiesIn(r, B)]

\* delete_alert: the detected slots of the alert go with it
DeleteAlert(a) ==
    /\ edits < MaxEdits
    /\ a \in DOMAIN alerts
    /\ alerts' = [x \in DOMAIN alerts \ {a} |-> alerts[x]]
    /\ detected' = WithoutAlert(detected, a)
    /\ edits' = edits + 1
    /\ UNCHANGED <<now, today, pc, loaded, i, cur, is_baseline,
                   slots, k, pending, attempts, run, first_avail, pass, feed, io>>

Next ==
    \/ PassLoad
    \/ PassLoadRaise
    \/ ForSkip
    \/ ForInvoke
    \/ ForDone
    \/ Sleep
    \/ Backoff
    \/ PaInactive
    \/ PaDeactivate
    \/ PaFetch
    \/ PaSkipExisting
    \/ PaMultipleRaise
    \/ PaRecord
    \/ PaStaleRaise
    \/ PaCommit
    \/ PaRaise
    \/ Midnight
    \/ \E a \in AlertIds, b \in BOOLEAN : UpdateActive(a, b)
    \/ \E a \in AlertIds, d \in Dates : UpdateTargetDate(a, d)
    \/ \E a \in AlertIds, d \in Dates : UpdateResume(a, d)
    \/ \E a \in AlertIds : DeleteAlert(a)

Spec == Init /\ [][Next]_vars

SpecSched == InitSched /\ [][Next]_vars

\* The worker is one coroutine that the event loop always resumes: a sleep
\* that can end does end.
SpecLive == Init /\ [][Next]_vars /\ WF_vars(Backoff) /\ WF_vars(Sleep)

\* starvation scenario: two premium alerts, due in the same passes; the club
\* of alert 1 has no bookable slot
InitStarve ==
    /\ InitWorker
    /\ alerts = [a \in AlertIds |-> NewAlert(0, PremiumInterval)]
    /\ feed = [a \in AlertIds |-> IF a = 1 THEN {} ELSE TinyFeed]
    /\ IdleScraper
    /\ IdleApi

\* the steps of the worker
WorkerNext ==
    \/ PassLoad
    \/ PassLoadRaise
    \/ ForSkip
    \/ ForInvoke
    \/ ForDone
    \/ Sleep
    \/ Backoff
    \/ PaInactive
    \/ PaDeactivate
    \/ PaFetch
    \/ PaSkipExisting
    \/ PaMultipleRaise
    \/ PaRecord
    \/ PaStaleRaise
    \/ PaCommit
    \/ PaRaise

\* Fair scheduling: the event loop always resumes the worker, and the query
\* that loads the alerts does not fail forever.
SpecStarve ==
    InitStarve /\ [][Next]_vars /\ WF_vars(WorkerNext) /\ SF_vars(PassLoad)

(***************************************************************************)
(* DoinsportScraper.get_available_slots, computed on an upstream outcome.  *)
(*                                                                         *)
(* A JSON value is a record with a type field; an object carries the keys  *)
(* the code reads.  A key that is absent reads "missing", a number that is *)
(* JSON null reads NULL and a number whose key is absent reads MISSING.    *)
(***************************************************************************)
MISSING == -2

\* dict.get(key, default) for a number
Get(v, default) == IF v = MISSING THEN default ELSE v

Price(bookable, pricePerParticipant, duration) ==
    [type |-> "dict", bookable |-> bookable,
     pricePerParticipant |-> pricePerParticipant, participantCount |-> 4,
     duration |-> duration]

Slot(startAt, prices) ==
    [type |-> "dict", startAt |-> startAt, prices |-> prices]

Activity(id, slts) ==
    [type |-> "dict", id |-> id, slots |-> slts]

Playground(id, indoor, activities) ==
    [type |-> "dict", id |-> id, indoor |-> indoor, activities |-> activities]

\* the price options of the model: not an object; bookable true, false and
\* absent; bookable with pricePerParticipant null and with duration null;
\* bookable with a price field absent; bookable for three participants at
\* 10.25 each for 90 minutes and a half
PriceOptions ==
    {JsonStr}
      \cup {Price(b, 1000, 5400) : b \in {"true", "false", "missing"}}
      \cup {Price("true", NULL, 5400), Price("true", 1000, NULL)}
      \cup {Price("true", MISSING, 5400), Price("true", 1000, MISSING),
            [Price("true", 1000, 5400) EXCEPT !.participantCount = MISSING],
            [Price("true", 1025, 5430) EXCEPT !.participantCount = 3]}

PriceLists ==
    {<<p>> : p \in PriceOptions}
      \cup {<<Price("true", 1000, 5400), Price("true", 750, 3600)>>}

SlotRecords == {JsonStr} \cup {Slot(1, ps) : ps \in PriceLists}

ActivityRecords ==
    {JsonStr, Activity(PADEL_ACTIVITY_ID + 1,
                       <<Slot(1, <<Price("true", 1000, 5400)>>)>>)}
      \cup {Activity(PADEL_ACTIVITY_ID, <<s>>) : s \in SlotRecords}

PlaygroundRecords(id) ==
    {JsonStr}
      \cup {Playground(id, ind, <<a>>) :
              ind \in {"true", "false", "missing"}, a \in ActivityRecords}

\* the bodies with at most MaxCourts courts; the court at position n has id n
Members ==
    UNION {{q \in [1..n -> UNION {PlaygroundRecords(c) : c \in 1..n}] :
               \A c \in 1..n : q[c] \in PlaygroundRecords(c)} :
           n \in 0..MaxCourts}

\* what client.get, raise_for_status and response.json() come back with
Responses ==
    {[kind |-> x, data |-> JsonStr] :
        x \in {"timeout", "connect_error", "status", "bad_json"}}
      \cup {[kind |-> "ok", data |-> [type |-> "list"]]}
      \cup {[kind |-> "ok", data |-> [type |-> "dict", member |-> m]] :
              m \in Members}

IsDict(x) == x.type = "dict"

\* what a block of the function yields: the exception it raised, if any, and
\* the candidates it appended
Done(out) == [exc |-> "", out |-> out]
Raised(e) == [exc |-> e, out |-> <<>>]

\* one block after another: an exception ends both
Then(h, t) ==
    IF h.exc # "" THEN h ELSE IF t.exc # "" THEN t ELSE Done(h.out \o t.out)

\* a variant that counts one participant when participantCount is absent,
\* against which the price computation (C37) is tested
FromPriceSingle(playground, slot, price, date) ==
    IF ~IsDict(price) THEN Done(<<>>)
    ELSE IF price.bookable # "true" THEN Done(<<>>)
    ELSE IF \/ price.pricePerParticipant = NULL
            \/ price.participantCount = NULL
            \/ price.duration = NULL
         THEN Raised("TypeError")
    ELSE LET per_person == Get(price.pricePerParticipant, 0)
             count == Get(price.participantCount, 1)
         IN  Done(<<Candidate(playground.id, date, slot.startAt,
                              <<per_person * count,
                                Get(price.duration, 5400) \div 60>>)
                      @@ [indoor |-> (playground.indoor = "true"),
                          price_per_person |-> per_person,
                          participant_count |-> count]>>)

\* the body of the loop over slot.get("prices").  price_per_person and
\* price_total are rounded to two decimals: the model holds them in cents
\* (for integer cents and counts round(p / 100 * n, 2) is p * n cents).
FromPrice(playground, slot, price, date) ==
    IF ~IsDict(price) THEN Done(<<>>)
    ELSE IF price.bookable # "true" THEN Done(<<>>)
    ELSE IF \/ price.pricePerParticipant = NULL
            \/ price.participantCount = NULL
            \/ price.duration = NULL
         THEN Raised("TypeError")
    ELSE LET per_person == Get(price.pricePerParticipant, 0)
             count == Get(price.participantCount, 4)
         IN  Done(<<Candidate(playground.id, date, slot.startAt,
                              <<per_person * count,
                                Get(price.duration, 5400) \div 60>>)
                      @@ [indoor |-> (playground.indoor = "true"),
                          price_per_person |-> per_person,
                          participant_count |-> count]>>)

RECURSIVE FromPrices(_, _, _, _)
FromPrices(playground, slot, n, date) ==
    IF n > Len(slot.prices) THEN Done(<<>>)
    ELSE Then(FromPrice(playground, slot, slot.prices[n], date),
              FromPrices(playground, slot, n + 1, date))

\* the body of the loop over activity.get("slots")
FromSlot(playground, slot, date) ==
    IF ~IsDict(slot) THEN Done(<<>>)
    ELSE FromPrices(playground, slot, 1, date)

RECURSIVE FromSlots(_, _, _, _)
FromSlots(playground, activity, n, date) ==
    IF n > Len(activity.slots) THEN Done(<<>>)
    ELSE Then(FromSlot(playground, activity.slots[n], date),
              FromSlots(playground, activity, n + 1, date))

\* the body of the loop over playground.get("activities")
FromActivity(playground, activity, date) ==
    IF ~IsDict(activity) THEN Done(<<>>)
    ELSE IF activity.id # PADEL_ACTIVITY_ID THEN Done(<<>>)
    ELSE FromSlots(playground, activity, 1, date)

RECURSIVE FromActivities(_, _, _)
FromActivities(playground, n, date) ==
    IF n > Len(playground.activities) THEN Done(<<>>)
    ELSE Then(FromActivity(playground, playground.activities[n], date),
              FromActivities(playground, n + 1, date))

\* the indoor filter: TRUE when the court is skipped
Skips(playground, filter) ==
    \/ filter = "true" /\ playground.indoor # "true"
    \/ filter = "false" /\ playground.indoor = "true"

\* the body of the loop over data.get("hydra:member"): the log line reads
\* playground.get before the isinstance check
FromPlayground(playground, date, filter) ==
    IF ~IsDict(playground) THEN Raised("AttributeError")
    ELSE IF Skips(playground, filter) THEN Done(<<>>)
    ELSE FromActivities(playground, 1, date)

RECURSIVE FromPlaygrounds(_, _, _, _)
FromPlaygrounds(member, n, date, filter) ==
    IF n > Len(member) THEN Done(<<>>)
    ELSE Then(FromPlayground(member[n], date, filter),
              FromPlaygrounds(member, n + 1, date, filter))

\* the try block
TryBlock(resp, date, filter) ==
    IF resp.kind \in {"timeout", "connect_error", "status"}
      THEN Raised("HTTPError")
    ELSE IF resp.kind = "bad_json" THEN Raised("JSONDecodeError")
    ELSE IF ~IsDict(resp.data) THEN Done(<<>>)
    ELSE FromPlaygrounds(resp.data.member, 1, date, filter)

\* get_available_slots with the handler of httpx.HTTPError only
HandlesHTTPErrorOnly(resp, date, filter) ==
    LET b == TryBlock(resp, date, filter)
    IN  IF b.exc = "HTTPError" THEN [raised |-> FALSE, out |-> <<>>]
        ELSE [raised |-> b.exc # "", out |-> b.out]

\* get_available_slots: the two handlers return []
get_available_slots(resp, date, filter) ==
    LET b == TryBlock(resp, date, filter)
    IN  IF b.exc = "HTTPError" THEN [raised |-> FALSE, out |-> <<>>]
        ELSE IF b.exc # "" THEN [raised |-> FALSE, out |-> <<>>]
        ELSE [raised |-> FALSE, out |-> b.out]

\* no alert and no club offer: the worker has nothing to do
IdleWorker ==
    /\ InitWorker
    /\ alerts = [a \in {} |-> NewAlert(0, FreeInterval)]
    /\ feed = [a \in AlertIds |-> {}]

InitFetch ==
    /\ IdleWorker
    /\ response \in Responses
    /\ indoor_only = "none"
    /\ result = NoResult
    /\ scan = NoScan
    /\ IdleApi

\* a caller awaits get_available_slots on the upstream outcome
Scrape ==
    \E f \in {"true", "false", "none"}, d \in Dates :
        /\ indoor_only' = f
        /\ result' = [called |-> TRUE, date |-> d]
                        @@ get_available_slots(response, d, f)
        /\ UNCHANGED <<now, today, alerts, detected, pc, loaded, i, cur,
                       is_baseline, slots, k, pending, attempts, run,
                       first_avail, pass, env, response, api, scan>>

NextFetch == Scrape

SpecFetch == InitFetch /\ [][NextFetch]_vars

(***************************************************************************)
(* create_alert (src/app/api/routes/alerts.py) for one user.               *)
(*                                                                         *)
(* A time of day is counted in seconds, a date in days.                    *)
(***************************************************************************)
PLAN_QUOTAS ==
    [free |-> [max_alerts |-> 2, check_interval_minutes |-> FreeInterval,
               min_days_ahead |-> 1, max_days_ahead |-> 14,
               max_time_window_hours |-> 6],
     premium |-> [max_alerts |-> 10,
                  check_interval_minutes |-> PremiumInterval,
                  min_days_ahead |-> 1, max_days_ahead |-> 60,
                  max_time_window_hours |-> 12]]

Clock(h, m, sec) == h * 3600 + m * 60 + sec

\* time.hour * 60 + time.minute
Minutes(t) == t \div 60

\* the request bodies of the model: target dates around the bounds of both
\* tiers, windows around the bounds of both tiers, a known or unknown club
Requests ==
    [target_date : {-1, 0, 1, 14, 15, 60, 61},
     time_from : {Clock(8, 0, 0)},
     time_to : {Clock(8, 0, 0), Clock(14, 0, 0), Clock(14, 0, 30),
                Clock(14, 1, 0), Clock(20, 0, 0), Clock(20, 1, 0)},
     club_known : BOOLEAN]

\* the numbers of alerts the user may already have
StoredAlerts == {0, 1, 2, 10}

\* AlertCreate: the validators of target_date and time_to
AlertCreate(req, day) ==
    /\ ~(req.target_date < day)
    /\ LET diff == Minutes(req.time_to) - Minutes(req.time_from)
       IN  ~(diff <= 0) /\ ~(diff > 24 * 60)

\* subscription.plan if subscription else "free"
PlanOf(sub) == IF sub = "none" THEN "free" ELSE sub

\* the validation of the quotas: 0, or the status of the HTTPException
Validation(quota, active_alerts, req, day) ==
    IF active_alerts >= quota["max_alerts"] THEN 403
    ELSE IF req.target_date < day + quota["min_days_ahead"] THEN 403
    ELSE IF req.target_date > day + quota["max_days_ahead"] THEN 403
    ELSE IF Minutes(req.time_to) - Minutes(req.time_from)
              > quota["max_time_window_hours"] * 60 THEN 403
    ELSE IF ~req.club_known THEN 404
    ELSE 0

\* create_alert: the status of the reply and the row added, if any
create_alert(sub, active_alerts, req, day) ==
    LET quota == PLAN_QUOTAS[PlanOf(sub)]
        refused == Validation(quota, active_alerts, req, day)
    IN  IF ~AlertCreate(req, day) THEN [status |-> 422, rows |-> <<>>]
        ELSE IF PlanOf(sub) \notin DOMAIN PLAN_QUOTAS
          THEN [status |-> 500, rows |-> <<>>]
        ELSE IF refused # 0 THEN [status |-> refused, rows |-> <<>>]
        ELSE IF "check_interval" \notin DOMAIN quota
          THEN [status |-> 500, rows |-> <<>>]
        ELSE [status |-> 201,
              rows |-> <<NewAlert(req.target_date,
                                  quota["check_interval"])>>]

\* Subscription.plan is a free string column: the plans of the model are no
\* subscription, the two tiers, and a name that is not a tier
Plans == {"none", "free", "premium", "pro"}

\* the poll interval stored in the alerts the user already has
StoredInterval(sub) ==
    IF sub = "premium" THEN PremiumInterval ELSE FreeInterval

\* one user, on any plan, with alerts stored for tomorrow
InitAdmit ==
    /\ InitWorker
    /\ IdleScraper
    /\ feed = [a \in AlertIds |-> {}]
    /\ subscription \in Plans
    /\ \E n \in StoredAlerts :
          alerts = [a \in 1..n |-> NewAlert(1, StoredInterval(subscription))]
    /\ request = NoRequest
    /\ reply = 0
    /\ billing = BillingOf(subscription)

\* POST /api/alerts
CreateAlert ==
    \E req \in Requests :
        LET r == create_alert(subscription, Cardinality(ActiveIds), req,
                              today)
            id == CHOOSE x \in 1..(Cardinality(DOMAIN alerts) + 1) :
                     x \notin DOMAIN alerts
        IN  /\ request' = req
            /\ reply' = r.status
            /\ alerts' = IF r.rows = <<>> THEN alerts
                         ELSE [a \in DOMAIN alerts \cup {id} |->
                                 IF a = id THEN r.rows[1] ELSE alerts[a]]
            /\ UNCHANGED <<now, today, detected, pc, loaded, i, cur,
                           is_baseline, slots, k, pending, attempts, run,
                           first_avail, pass, env, response, indoor_only,
                           result, subscription, billing, scan>>

NextAdmit == CreateAlert

SpecAdmit == InitAdmit /\ [][NextAdmit]_vars

(***************************************************************************)
(* The requests of one user over the alerts they have: create_alert,       *)
(* update_alert (pause, resume) and delete_alert.                          *)
(***************************************************************************)
\* max_alerts of the user's tier
MaxAlerts == PLAN_QUOTAS[IF subscription = "premium" THEN "premium"
                         ELSE "free"]["max_alerts"]

\* the user has at most MaxStored alerts, some of them paused, and no more
\* active ones than the tier allows
InitOwner ==
    /\ InitWorker
    /\ IdleScraper
    /\ feed = [a \in AlertIds |-> {}]
    /\ subscription \in {"none", "free", "premium"}
    /\ \E n \in 0..MaxStored :
          \E act \in [1..n -> BOOLEAN] :
             alerts = [a \in 1..n |->
                         [NewAlert(1, StoredInterval(subscription))
                            EXCEPT !.is_active = act[a]]]
    /\ Cardinality(ActiveIds) <= MaxAlerts
    /\ request = NoRequest
    /\ reply = 0
    /\ billing = BillingOf(subscription)

NextOwner ==
    \/ CreateAlert
    \/ \E a \in 1..MaxStored, b \in BOOLEAN : UpdateActive(a, b)
    \/ \E a \in 1..MaxStored : DeleteAlert(a)

SpecOwner == InitOwner /\ [][NextOwner]_vars

(***************************************************************************)
(* stripe_webhook: the events that change the user's subscription.  The    *)
(* model has one user; subscription is the plan of their row ("none": no   *)
(* row) and billing holds its status and stripe_subscription_id.           *)
(***************************************************************************)
\* the Stripe subscription ids of the model
Sids == {1, 2}

\* the statuses of a Stripe subscription sent in customer.subscription.updated
Statuses == {"active", "past_due", "canceled"}

\* what no webhook touches
WebhookFrame ==
    UNCHANGED <<now, today, alerts, detected, pc, loaded, i, cur, is_baseline,
                slots, k, pending, attempts, run, first_avail, pass, env,
                response, indoor_only, result, request, reply, scan>>

\* select(Subscription).where(stripe_subscription_id == sid) finds the row
Subscribed(sid) ==
    subscription # "none" /\ billing.stripe_subscription_id = sid

\* checkout.session.completed, product_type premium: the row is updated or
\* created with plan premium, status active
CheckoutCompletedPremium(sid) ==
    /\ subscription' = "premium"
    /\ billing' = [billing EXCEPT !.status = "active",
                                  !.stripe_subscription_id = sid]
    /\ WebhookFrame

\* customer.subscription.updated: the status is copied, the plan is kept
SubscriptionUpdated(sid, st) ==
    /\ billing' = IF Subscribed(sid) THEN [billing EXCEPT !.status = st]
                  ELSE billing
    /\ UNCHANGED subscription
    /\ WebhookFrame

\* a variant that gives the alerts of the user the interval of the free tier,
\* against which the snapshot property (C31) is tested
SubscriptionDeletedRestamps(sid) ==
    /\ subscription' = IF Subscribed(sid) THEN "free" ELSE subscription
    /\ billing' = IF Subscribed(sid) THEN [billing EXCEPT !.status = "canceled"]
                  ELSE billing
    /\ alerts' = IF Subscribed(sid)
                 THEN [a \in DOMAIN alerts |->
                         [alerts[a] EXCEPT
                            !.check_interval_minutes = FreeInterval]]
                 ELSE alerts
    /\ UNCHANGED <<now, today, detected, pc, loaded, i, cur, is_baseline,
                   slots, k, pending, attempts, run, first_avail, pass, env,
                   response, indoor_only, result, request, reply, scan>>

\* customer.subscription.deleted: status canceled, plan free
SubscriptionDeleted(sid) ==
    /\ subscription' = IF Subscribed(sid) THEN "free" ELSE subscription
    /\ billing' = IF Subscribed(sid) THEN [billing EXCEPT !.status = "canceled"]
                  ELSE billing
    /\ WebhookFrame

\* invoice.payment_failed: status past_due
PaymentFailed(sid) ==
    /\ billing' = IF Subscribed(sid) THEN [billing EXCEPT !.status = "past_due"]
                  ELSE billing
    /\ UNCHANGED subscription
    /\ WebhookFrame

\* a premium user with one alert stamped with the premium interval
InitPlan ==
    /\ InitWorker
    /\ alerts = [a \in {1} |-> NewAlert(0, PremiumInterval)]
    /\ feed = [a \in AlertIds |-> TinyFeed]
    /\ IdleScraper
    /\ subscription = "premium"
    /\ request = NoRequest
    /\ reply = 0
    /\ billing = [NoBilling EXCEPT !.status = "active",
                                   !.stripe_subscription_id = 1]

NextPlan ==
    \/ Next
    \/ \E sid \in Sids : CheckoutCompletedPremium(sid)
    \/ \E sid \in Sids, st \in Statuses : SubscriptionUpdated(sid, st)
    \/ \E sid \in Sids : SubscriptionDeleted(sid)
    \/ \E sid \in Sids : PaymentFailed(sid)

SpecPlan == InitPlan /\ [][NextPlan]_vars

(***************************************************************************)
(* Boost purchases.  billing.paid holds the checkout sessions of the user   *)
(* that Stripe has completed payment for, billing.boost_count the row of    *)
(* user_boosts (NULL: no row) and billing.purchases the rows of             *)
(* boost_purchases.  Stripe delivers checkout.session.completed at least    *)
(* once for a paid session: a delivery may be repeated.                     *)
(***************************************************************************)
MaxDeliveries == 4

PackCount == 5

\* the ids of the checkout sessions
Sessions == {1, 2, 3}

\* product_config[product_type]["boost_count"]
BoostCountOf(product_type) ==
    IF product_type = "boost_single" THEN 1 ELSE PackCount

\* the session created by create_checkout_session, with its metadata
CheckoutSession(id, product_type) ==
    [id |-> id, payment_intent |-> id, product_type |-> product_type,
     boost_count |-> BoostCountOf(product_type)]

\* the row of user_boosts is created with count or incremented by it
add_boosts_to_user(b, count) ==
    [b EXCEPT !.boost_count = IF @ = NULL THEN count ELSE @ + count]

\* the user pays a boost checkout created by POST /checkout
PayCheckout(id, product_type) ==
    /\ \A s \in billing.paid : s.id # id
    /\ billing' = [billing EXCEPT
                     !.paid = @ \cup {CheckoutSession(id, product_type)}]
    /\ UNCHANGED subscription
    /\ WebhookFrame

\* checkout.session.completed, product_type boost_single or boost_pack: the
\* boosts are added, the purchase is recorded and both are committed
CheckoutCompletedBoost(session) ==
    /\ session \in billing.paid
    /\ Len(billing.purchases) < MaxDeliveries
    /\ billing' = [add_boosts_to_user(billing, session.boost_count) EXCEPT
                     !.purchases =
                        Append(@, [stripe_payment_intent_id |->
                                       session.payment_intent,
                                   product_type |-> session.product_type,
                                   boost_count |-> session.boost_count])]
    /\ UNCHANGED subscription
    /\ WebhookFrame

InitBoost ==
    /\ IdleWorker
    /\ IdleScraper
    /\ IdleApi

NextBoost ==
    \/ \E id \in Sessions, t \in {"boost_single", "boost_pack"} :
          PayCheckout(id, t)
    \/ \E id \in Sessions, t \in {"boost_single", "boost_pack"} :
          CheckoutCompletedBoost(CheckoutSession(id, t))

SpecBoost == InitBoost /\ [][NextBoost]_vars

(***************************************************************************)
(* The alert routes with their ownership filter, for two users.  A row of  *)
(* user_alerts carries its user_id and its time window here.  User 1 has   *)
(* the subscription of the model; user 2 has none.                         *)
(***************************************************************************)
Users == {1, 2}

\* the alert ids a request can name; the last one is not in the table
EditIds == {1, 2, 3}

OwnedAlert(u, d, tf, tt, iv) ==
    [user_id |-> u, time_from |-> tf, time_to |-> tt] @@ NewAlert(d, iv)

\* AlertUpdate: every field is optional; fields holds the names that are set
\* (alert_update.dict(exclude_unset=True))
Body(F, d, tf, tt, act) ==
    [fields |-> F, target_date |-> d, time_from |-> tf, time_to |-> tt,
     is_active |-> act]

AlertUpdate ==
    {Body({}, 0, 0, 0, FALSE)}
      \cup {Body({"target_date"}, d, 0, 0, FALSE) : d \in {0, 1, 15, 61}}
      \cup {Body({"time_from"}, 0, t, 0, FALSE) :
               t \in {Clock(8, 0, 0), Clock(15, 0, 0)}}
      \cup {Body({"time_to"}, 0, 0, t, FALSE) :
               t \in {Clock(7, 0, 0), Clock(14, 0, 0), Clock(21, 0, 0)}}
      \cup {Body({"is_active"}, 0, 0, 0, b) : b \in BOOLEAN}

\* for field, value in update_data.items(): setattr(alert, field, value),
\* with baseline_scraped = False when target_date is set
Updated(row, body) ==
    [row EXCEPT
       !.target_date = IF "target_date" \in body.fields
                       THEN body.target_date ELSE @,
       !.baseline_scraped = IF "target_date" \in body.fields THEN FALSE ELSE @,
       !.time_from = IF "time_from" \in body.fields THEN body.time_from ELSE @,
       !.time_to = IF "time_to" \in body.fields THEN body.time_to ELSE @,
       !.is_active = IF "is_active" \in body.fields THEN body.is_active ELSE @]

\* a variant of the query without the user_id filter, against which the
\* ownership isolation (C38) is tested
AnyAlert(rows, user, id) == id \in DOMAIN rows

\* select(UserAlert).where(id == alert_id, user_id == current_user.id)
Owned(rows, user, id) == id \in DOMAIN rows /\ rows[id].user_id = user

\* update_alert: the status of the reply and the table after it
update_alert(rows, user, id, body) ==
    IF ~Owned(rows, user, id) THEN [status |-> 404, rows |-> rows]
    ELSE [status |-> 200,
          rows |-> [rows EXCEPT ![id] = Updated(rows[id], body)]]

\* delete_alert: the status of the reply and the tables after it
delete_alert(rows, det, user, id) ==
    IF ~Owned(rows, user, id)
    THEN [status |-> 404, rows |-> rows, detected |-> det]
    ELSE [status |-> 204,
          rows |-> [x \in DOMAIN rows \ {id} |-> rows[x]],
          detected |-> WithoutAlert(det, id)]

\* get_alert_history: the status of the reply and the slots returned
get_alert_history(rows, det, user, id) ==
    IF ~Owned(rows, user, id) THEN [status |-> 404, slots |-> {}]
    ELSE [status |-> 200,
          slots |-> {r \in BagToSet(det) : r.alert_id = id}]

\* list_alerts: the ids of the alerts returned
list_alerts(rows, user) == {a \in DOMAIN rows : rows[a].user_id = user}

\* get_all_history: the slots returned
get_all_history(rows, det, user) ==
    {r \in BagToSet(det) : r.alert_id \in list_alerts(rows, user)}

\* what no request to the alert routes touches
EditFrame ==
    UNCHANGED <<now, today, pc, loaded, i, cur, is_baseline, slots, k,
                pending, attempts, run, first_avail, pass, feed, response,
                indoor_only, result, subscription, billing, scan>>

\* the reply to a request: its status, the alerts whose row it returns and
\* the detected slots it returns
Reply(st, ids, rows) == [status |-> st, alerts |-> ids, slots |-> rows]

\* PATCH /api/alerts/{alert_id}; edits counts the PATCH and DELETE requests
UpdateRequest ==
    \E u \in Users, a \in EditIds, body \in AlertUpdate :
        LET r == update_alert(alerts, u, a, body)
        IN  /\ edits < MaxRequests
            /\ edits' = edits + 1
            /\ request' = [op |-> "update_alert", user |-> u, alert |-> a,
                           body |-> body]
            /\ alerts' = r.rows
            /\ reply' = Reply(r.status,
                              IF r.status = 200 THEN {a} ELSE {}, {})
            /\ UNCHANGED detected
            /\ EditFrame

\* DELETE /api/alerts/{alert_id}
DeleteRequest ==
    \E u \in Users, a \in EditIds :
        LET r == delete_alert(alerts, detected, u, a)
        IN  /\ edits < MaxRequests
            /\ edits' = edits + 1
            /\ request' = [op |-> "delete_alert", user |-> u, alert |-> a]
            /\ alerts' = r.rows
            /\ detected' = r.detected
            /\ reply' = Reply(r.status, {}, {})
            /\ EditFrame

\* GET /api/alerts/{alert_id}/history
HistoryRequest ==
    \E u \in Users, a \in EditIds :
        LET r == get_alert_history(alerts, detected, u, a)
        IN  /\ request' = [op |-> "get_alert_history", user |-> u,
                           alert |-> a]
            /\ reply' = Reply(r.status, {}, r.slots)
            /\ UNCHANGED <<alerts, detected, edits>>
            /\ EditFrame

\* GET /api/alerts and GET /api/alerts/history/all
ListRequest ==
    \E u \in Users :
        /\ request' = [op |-> "list_alerts", user |-> u, alert |-> 0]
        /\ reply' = Reply(200, list_alerts(alerts, u),
                          get_all_history(alerts, detected, u))
        /\ UNCHANGED <<alerts, detected, edits>>
        /\ EditFrame

\* each user has one alert as create_alert admits it for the free tier
\* (tomorrow, a window of six hours), with one detected slot
InitEdit ==
    /\ now = 0 /\ today = 0 /\ edits = 0
    /\ pc = "pass" /\ loaded = <<>> /\ i = 1 /\ cur = 0
    /\ is_baseline = FALSE /\ slots = <<>> /\ k = 1 /\ pending = <<>>
    /\ attempts = EmptyBag /\ run = NoRun /\ first_avail = {}
    /\ invoked = {} /\ pass_day = 0
    /\ IdleScraper
    /\ feed = [a \in AlertIds |-> {}]
    /\ subscription \in {"none", "free", "premium"}
    /\ billing = BillingOf(subscription)
    /\ alerts = [a \in Users |->
                   OwnedAlert(a, 1, Clock(8, 0, 0), Clock(14, 0, 0),
                              StoredInterval(IF a = 1 THEN subscription
                                             ELSE "free"))]
    /\ detected = SeqToBag([a \in Users |->
                              NewRow(a, Candidate(1, 1, a, <<40, 90>>))])
    /\ request = [op |-> "none", user |-> 0, alert |-> 0]
    /\ reply = Reply(0, {}, {})

NextEdit ==
    \/ UpdateRequest
    \/ DeleteRequest
    \/ HistoryRequest
    \/ ListRequest

SpecEdit == InitEdit /\ [][NextEdit]_vars

(***************************************************************************)
(* DoinsportScraper.scan_multiple_days, one step per await.  scan holds    *)
(* the arguments, the offset of the loop, the clock in seconds, the calls  *)
(* of get_available_slots made so far and all_slots.                       *)
(***************************************************************************)
\* date.isoweekday(); day 0 is a Monday
IsoWeekday(d) == (d % 7) + 1

\* the days_of_week arguments of the model: None, or a list of ISO weekdays
Filters ==
    {[supplied |-> FALSE, days |-> {}]}
      \cup {[supplied |-> TRUE, days |-> D] :
               D \in (SUBSET (1..3)) \cup {{6, 7}, 1..7}}

\* "days_of_week and check_date.isoweekday() not in days_of_week", for the
\* date at offset d from the current day
Skipped(sc, day) ==
    /\ sc.days_of_week.supplied
    /\ sc.days_of_week.days # {}
    /\ IsoWeekday(day + sc.d) \notin sc.days_of_week.days

\* what no step of scan_multiple_days touches
ScanFrame ==
    UNCHANGED <<now, today, alerts, detected, pc, loaded, i, cur, is_baseline,
                slots, k, pending, attempts, run, first_avail, pass, env,
                response, indoor_only, result, api>>

\* the date of the offset is filtered out: continue
ScanSkip ==
    /\ scan.state = "loop"
    /\ scan.d < scan.days_ahead
    /\ Skipped(scan, today)
    /\ scan' = [scan EXCEPT !.d = @ + 1]
    /\ ScanFrame

\* slots = await self.get_available_slots(date=date_str, ...): the call
ScanCall ==
    /\ scan.state = "loop"
    /\ scan.d < scan.days_ahead
    /\ ~Skipped(scan, today)
    /\ scan' = [scan EXCEPT
                  !.state = "fetch",
                  !.calls = Append(@, [offset |-> scan.d,
                                       date |-> today + scan.d,
                                       at |-> scan.t, end |-> NULL,
                                       outcome |-> "pending",
                                       out |-> <<>>])]
    /\ ScanFrame

\* a variant that sleeps only after a call that returned slots, against
\* which the pacing floor (C36) is tested
ScanReturnAdaptive ==
    /\ scan.state = "fetch"
    /\ \E outcome \in {"slots", "empty", "failed"}, dur \in 0..1 :
         LET n == Len(scan.calls)
             date == scan.calls[n].date
             res == IF outcome = "slots"
                    THEN <<Candidate(1, date, 1, <<40, 90>>)>> ELSE <<>>
         IN  scan' = [scan EXCEPT
                        !.state = IF outcome = "slots" THEN "sleep"
                                  ELSE "loop",
                        !.d = IF outcome = "slots" THEN @ ELSE @ + 1,
                        !.t = @ + dur,
                        !.calls[n].end = scan.t + dur,
                        !.calls[n].outcome = outcome,
                        !.calls[n].out = res,
                        !.all_slots = @ \o res]
    /\ ScanFrame

\* the call returns a list: the slots of the date, none, or [] after a
\* failure; all_slots.extend(slots)
ScanReturn ==
    /\ scan.state = "fetch"
    /\ \E outcome \in {"slots", "empty", "failed"}, dur \in 0..1 :
         LET n == Len(scan.calls)
             date == scan.calls[n].date
             res == IF outcome = "slots"
                    THEN <<Candidate(1, date, 1, <<40, 90>>)>> ELSE <<>>
         IN  scan' = [scan EXCEPT
                        !.state = "sleep",
                        !.t = @ + dur,
                        !.calls[n].end = scan.t + dur,
                        !.calls[n].outcome = outcome,
                        !.calls[n].out = res,
                        !.all_slots = @ \o res]
    /\ ScanFrame

\* await asyncio.sleep(1): the coroutine resumes after the delay or later
ScanSleep ==
    /\ scan.state = "sleep"
    /\ \E late \in 0..1 :
         scan' = [scan EXCEPT !.state = "loop", !.d = @ + 1,
                              !.t = @ + PacingDelay + late]
    /\ ScanFrame

\* the range is exhausted: return all_slots
ScanDone ==
    /\ scan.state = "loop"
    /\ scan.d >= scan.days_ahead
    /\ scan' = [scan EXCEPT !.state = "done"]
    /\ ScanFrame

\* a call of scan_multiple_days with its arguments, on the day it starts
InitScan ==
    /\ IdleWorker
    /\ response = NoResponse
    /\ indoor_only = "none"
    /\ result = NoResult
    /\ IdleApi
    /\ \E so \in 0..1, da \in 0..MaxAhead, f \in Filters :
          scan = [state |-> "loop", start_offset |-> so, days_ahead |-> da,
                  days_of_week |-> f, day0 |-> 0, d |-> so, t |-> 0,
                  calls |-> <<>>, all_slots |-> <<>>]

NextScan ==
    \/ ScanSkip
    \/ ScanCall
    \/ ScanReturn
    \/ ScanSleep
    \/ ScanDone
    \/ Midnight

SpecScan == InitScan /\ [][NextScan]_vars

(***************************************************************************)
(* Properties.                                                             *)
(***************************************************************************)
\* a step that ends a process_alert run by its commit
CommitStep == pc = "pa_slot" /\ pc' = "for"

\* a step of the worker in process_alert or in the for loop
WorkerStep == pc' # pc \/ k' # k \/ i' # i

\* candidate s of alert a has the key of a recorded row of another price or
\* duration
PriceChanged(a, s) ==
    \E r \in BagToSet(detected) :
        /\ r.alert_id = a
        /\ r.playground_id = s.playground_id
        /\ r.date = s.date
        /\ r.start_time = s.start_time
        /\ (r.price_total # s.price_total
            \/ r.duration_minutes # s.duration_minutes)

\* the candidates of a list whose key has no committed row
Unrecorded(a, q) ==
    {x \in 1..Len(q) : ExistingCount(detected, a, q[x]) = 0}

\* C1: over any sequence of passes, responses, notification outcomes and
\* failures, send_slot_notification is called at most once for a key, and a
\* steady run that commits has made one notification attempt for each row it
\* adds.
C1_AtMostOneAttempt ==
    /\ \A q \in BagToSet(attempts) : CopiesIn(q, attempts) <= 1
    /\ (run.state = "committed" /\ ~run.baseline) => run.sends = run.added

\* C2: in every reachable state at most one DetectedSlot exists for an
\* (alert, playground, date, start time), also when one response lists the
\* same playground and start time under several price options.
C2_OneRowPerKey ==
    \A r \in BagToSet(detected) : ExistingCount(detected, r.alert_id, r) <= 1

\* C3 as stated: a baseline run that completes with N candidates fetched
\* persists N DetectedSlots, all unsent, makes no notification attempt and
\* sets baseline_scraped.
C3_BaselinePersistsAll ==
    [][(CommitStep /\ is_baseline) =>
          /\ BagCardinality(detected') - BagCardinality(detected) = Len(slots)
          /\ run.sends = 0
          /\ \A x \in 1..Len(pending) : ~pending[x].email_sent
          /\ alerts'[cur].baseline_scraped]_vars

\* C3 amended: a baseline run that completes persists one unsent DetectedSlot
\* for each fetched candidate whose key was not recorded yet for the alert
\* (all N when none was), makes no notification attempt and sets
\* baseline_scraped.
C3_BaselinePersistsUnrecorded ==
    [][(CommitStep /\ is_baseline) =>
          /\ BagCardinality(detected') - BagCardinality(detected)
               = Cardinality(Unrecorded(cur, slots))
          /\ run.sends = 0
          /\ \A x \in 1..Len(pending) : ~pending[x].email_sent
          /\ alerts'[cur].baseline_scraped]_vars

\* C3, reached: a baseline run committed after fetching two candidates, one
\* of a key already recorded, and added one row without any attempt.
C3_Reached ==
    /\ run.state = "committed"
    /\ run.baseline
    /\ Len(run.fetched) = 2
    /\ run.fresh = 1
    /\ run.added = 1
    /\ run.sends = 0
    /\ alerts[run.alert].baseline_scraped

\* C4: a slot the club offered when the alert was first scanned never gets a
\* notification, whatever the outcome of the fetches before it is
\* first observed.
C4_NoAttemptForFirstAvailable ==
    [][\A q \in first_avail : CopiesIn(q, attempts') = CopiesIn(q, attempts)]_vars

\* C5: a steady run whose fetch holds exactly one candidate of a key not yet
\* recorded ends with exactly one new DetectedSlot and exactly one
\* notification attempt (runs cut by a persistence error aside).
C5_OneNewOneAttempt ==
    (run.state \in {"committed", "multiple"} /\ ~run.baseline /\ run.fresh = 1)
        => (run.added = 1 /\ run.sends = 1)

\* C6: a run that fetches the list R the run of the same alert just before it
\* fetched adds no DetectedSlot and calls send_slot_notification for no slot
\* (no owner request coming between or during the two runs).
C6_SecondRunIdle ==
    (run.repeat /\ edits = 0) => (run.calls = 0 /\ run.added = 0)

\* C7: on a candidate with the key of a recorded DetectedSlot but another
\* price or duration, process_alert adds no DetectedSlot and makes no
\* notification attempt; and no step of the worker changes or removes a
\* recorded row.
C7_PriceChangeIgnored ==
    [][/\ (pc = "pa_slot" /\ k <= Len(slots) /\ WorkerStep
              /\ PriceChanged(cur, slots[k]))
          => (/\ Len(pending') <= Len(pending)
              /\ attempts' = attempts
              /\ detected' = detected)
       /\ WorkerStep => (detected \sqsubseteq detected')]_vars

\* C7, reached: a steady run has passed a first candidate whose key is
\* recorded with another price, without a pending row or an attempt.
C7_Reached ==
    /\ pc = "pa_slot"
    /\ ~is_baseline
    /\ k = 2
    /\ PriceChanged(cur, slots[1])
    /\ pending = <<>>
    /\ run.sends = 0

\* C8: at the end of a pass, process_alert was invoked for a loaded alert if
\* and only if its last_checked_at is null or at least
\* check_interval_minutes old.
C8_InvokedIffDue ==
    pc \in {"sleep", "backoff"} =>
        \A j \in 1..Len(loaded) :
            (loaded[j].id \in invoked)
              <=> IsDue(loaded[j].last_checked_at,
                        loaded[j].check_interval_minutes, now)

C10_OthersStillProcessed ==
    (pc = "backoff" /\ run.state = "lost" /\ i <= Len(loaded)) =>
        /\ run.alert \in DOMAIN alerts
             => alerts[run.alert].last_checked_at = loaded[i].last_checked_at
        /\ \A j \in (i + 1)..Len(loaded) :
               IsDue(loaded[j].last_checked_at,
                     loaded[j].check_interval_minutes, now)
                 => loaded[j].id \in invoked


\* C11: the loop goes on after every pass: a step out of the backoff starts a
\* pass at the same minute and a step out of the sleep starts a pass a tick
\* later; after an exception the backoff ends and a pass starts, and after a
\* pass without exception the sleep ends and a pass starts (as long as the
\* clock of the model can advance).
C11_LoopGoesOn ==
    /\ [][/\ (pc = "backoff" /\ pc' # pc) => (pc' = "pass" /\ now' = now)
          /\ (pc = "sleep" /\ pc' # pc)
               => (pc' = "pass" /\ now' = now + WORKER_CHECK_INTERVAL)
          /\ (pc \in {"pass", "pa_load", "pa_slot"} /\ pc' # pc)
               => pc' \in {"for", "backoff", "pa_slot"}]_vars
    /\ [](pc = "backoff" => <>(pc = "pass"))
    /\ []((pc = "sleep" /\ now + WORKER_CHECK_INTERVAL <= MaxNow)
            => <>(pc = "pass"))

\* C11, reached: a pass has loaded the alerts after a process_alert run that
\* raised.
C11_Reached ==
    /\ pc = "for"
    /\ i = 1
    /\ run.state \in {"lost", "multiple", "stale"}

\* C12: when the notification of a new slot of a STEADY alert failed (the
\* send returned failure or the recipient was not resolved), the run goes on
\* to process every remaining candidate of the scan and, a persistence error
\* aside, ends with that slot persisted with email_sent = false.
C12_FailedSendStillPersisted ==
    [][(/\ pc = "pa_slot" /\ ~is_baseline /\ pc' # pc
        /\ run'.state \notin {"lost", "stale"}
        /\ \E x \in 1..Len(pending) : ~pending[x].email_sent)
         => /\ k > Len(slots)
            /\ \A x \in 1..Len(pending) :
                   ~pending[x].email_sent
                     => CopiesIn(pending[x], detected') > 0]_vars

\* C13: a run that scanned for an alert whose baseline_scraped was false ends
\* (a persistence error aside) with baseline_scraped = true, whatever the
\* number of candidates, and no step of the scheduler or of process_alert
\* changes baseline_scraped of an alert from true back to false.
C13_BaselineFlips ==
    [][/\ (/\ pc = "pa_slot" /\ is_baseline /\ pc' # pc
            /\ run'.state \notin {"lost", "stale"})
           => alerts'[cur].baseline_scraped
       /\ WorkerStep
           => \A a \in DOMAIN alerts \cap DOMAIN alerts' :
                 alerts[a].baseline_scraped => alerts'[a].baseline_scraped]_vars

\* the upstream call failed: no response, an error status, or a body that is
\* not a JSON object
UpstreamFailed == response.kind # "ok" \/ ~IsDict(response.data)

\* C14: get_available_slots never raises to its caller, whatever the upstream
\* outcome, and returns the empty list when the upstream call failed.
C14_NeverRaises ==
    result.called
      => /\ ~result.raised
         /\ UpstreamFailed => result.out = <<>>

\* a call has returned on a body that is not valid JSON
C14_Reached ==
    /\ result.called
    /\ response.kind = "bad_json"

Range(q) == {q[x] : x \in DOMAIN q}

\* the upstream outcome with the body cut down to court n
OnlyCourt(n) ==
    [kind |-> "ok",
     data |-> [type |-> "dict", member |-> <<response.data.member[n]>>]]

\* C15: the candidates that a court of the response yields when it is the
\* only court of the body are all returned for the whole response, whatever
\* the shape of the other records of the response.
C15_OtherRecordsKept ==
    (result.called /\ ~UpstreamFailed)
      => \A n \in 1..Len(response.data.member) :
            Range(get_available_slots(OnlyCourt(n), result.date,
                                      indoor_only).out)
              \subseteq Range(result.out)

\* the price options <<court, activity, slot, option>> of the body that are
\* objects with bookable = b and numbers in the price fields, in courts that
\* pass the filter and activities of the padel activity id
OptionsWith(b) ==
    LET m == response.data.member
    IN  {o \in {<<c, a, t, p>> : c \in 1..MaxCourts, a \in 1..1, t \in 1..1,
                                 p \in 1..2} :
           /\ o[1] <= Len(m) /\ IsDict(m[o[1]])
           /\ ~Skips(m[o[1]], indoor_only)
           /\ o[2] <= Len(m[o[1]].activities)
           /\ IsDict(m[o[1]].activities[o[2]])
           /\ m[o[1]].activities[o[2]].id = PADEL_ACTIVITY_ID
           /\ o[3] <= Len(m[o[1]].activities[o[2]].slots)
           /\ IsDict(m[o[1]].activities[o[2]].slots[o[3]])
           /\ o[4] <= Len(m[o[1]].activities[o[2]].slots[o[3]].prices)
           /\ LET price == m[o[1]].activities[o[2]].slots[o[3]].prices[o[4]]
              IN  /\ IsDict(price)
                  /\ price.bookable = b
                  /\ price.pricePerParticipant # NULL
                  /\ price.duration # NULL}

\* C16: the list returned for a JSON object holds exactly one candidate per
\* price option whose bookable flag is true (courts passing the indoor
\* filter, activities of the padel activity id, numbers in the price fields)
\* and none for the options whose flag is false or missing.
C16_OnePerBookable ==
    (result.called /\ ~UpstreamFailed)
      => Len(result.out) = Cardinality(OptionsWith("true"))

\* C17: for one upstream response, indoor_only = true returns candidates of
\* indoor courts only, indoor_only = false candidates of other courts only,
\* and the two lists together are as long as the list for indoor_only = None.
C17_Partition ==
    (result.called /\ ~UpstreamFailed)
      => LET in == get_available_slots(response, result.date, "true").out
             ex == get_available_slots(response, result.date, "false").out
             all == get_available_slots(response, result.date, "none").out
         IN  /\ \A x \in Range(in) : x.indoor
             /\ \A x \in Range(ex) : ~x.indoor
             /\ Len(in) + Len(ex) = Len(all)

\* the step is a create_alert call that created an active alert from the
\* request, stamped with check_interval_minutes iv
Created(iv) ==
    /\ reply' = 201
    /\ \E a \in DOMAIN alerts' \ DOMAIN alerts :
          /\ DOMAIN alerts' = DOMAIN alerts \cup {a}
          /\ alerts'[a] = NewAlert(request'.target_date, iv)

\* the step is a create_alert call that refused the request
Refused ==
    /\ reply' \in {403, 404, 422}
    /\ alerts' = alerts

\* the window of a request, in seconds
Window(req) == req.time_to - req.time_from

\* C18: for a user of the free tier under the alert quota, an existing club
\* and a window of at most six hours, create_alert refuses a target date of
\* today and of today + 15 and creates an active alert for a target date of
\* today + 1 and of today + 14.
C18_FreeDateBounds ==
    [][(/\ <<request, reply, alerts>>' # <<request, reply, alerts>>
        /\ subscription \in {"none", "free"}
        /\ Cardinality(ActiveIds) < 2
        /\ request'.club_known
        /\ Window(request') > 0
        /\ Window(request') <= 6 * 3600)
         => /\ request'.target_date \in {today, today + 15} => Refused
            /\ request'.target_date \in {today + 1, today + 14}
                 => Created(FreeInterval)]_vars

\* the bound of the window of the user's tier, in hours
MaxWindowHours == IF subscription = "premium" THEN 12 ELSE 6

\* the request passes every check of create_alert but the window's
OtherwiseValid(req) ==
    /\ Cardinality(ActiveIds) < (IF subscription = "premium" THEN 10 ELSE 2)
    /\ req.target_date >= today + 1
    /\ req.target_date <= today + (IF subscription = "premium" THEN 60
                                   ELSE 14)
    /\ req.club_known

\* C19: create_alert creates no alert for a request whose window is longer
\* than the bound of the user's tier (6 h free, 12 h premium), and creates
\* one for an otherwise valid request whose window is equal to the bound.
C19_WindowBound ==
    [][(/\ <<request, reply, alerts>>' # <<request, reply, alerts>>
        /\ subscription \in {"none"} \cup DOMAIN PLAN_QUOTAS)
         => /\ Window(request') > MaxWindowHours * 3600
                 => (reply' # 201 /\ alerts' = alerts)
            /\ (/\ Window(request') = MaxWindowHours * 3600
                /\ OtherwiseValid(request'))
                 => /\ reply' = 201
                    /\ Cardinality(DOMAIN alerts')
                         = Cardinality(DOMAIN alerts) + 1]_vars

\* C20: a request that create_alert admits (no validation error, no quota,
\* date, window or club refusal) creates an alert whose
\* check_interval_minutes is the poll interval of the user's tier (10 free,
\* 3 premium), with baseline_scraped = false and last_checked_at null.
C20_IntervalStamped ==
    [][(/\ <<request, reply, alerts>>' # <<request, reply, alerts>>
        /\ subscription \in {"none"} \cup DOMAIN PLAN_QUOTAS
        /\ AlertCreate(request', today)
        /\ OtherwiseValid(request')
        /\ Window(request') <= MaxWindowHours * 3600)
         => /\ DOMAIN alerts' # DOMAIN alerts
            /\ \A a \in DOMAIN alerts' \ DOMAIN alerts :
                  /\ alerts'[a].check_interval_minutes
                       = (IF subscription = "premium" THEN PremiumInterval
                          ELSE FreeInterval)
                  /\ ~alerts'[a].baseline_scraped
                  /\ alerts'[a].last_checked_at = NULL]_vars

\* C21: the number of active alerts of a user never exceeds max_alerts of
\* the user's tier (2 free, 10 premium), whatever create_alert, pause, resume
\* and delete requests the user sends.
C21_ActiveWithinQuota == Cardinality(ActiveIds) <= MaxAlerts

\* C22: for a user whose plan name is not a configured tier, create_alert
\* applies the limits of the free tier: a valid request body that the free
\* tier refuses (alert quota, date bounds, window bound, unknown club) gets
\* the refusal of the free tier.
C22_UnknownPlanIsFree ==
    [][(/\ <<request, reply, alerts>>' # <<request, reply, alerts>>
        /\ subscription \notin {"none"} \cup DOMAIN PLAN_QUOTAS
        /\ AlertCreate(request', today)
        /\ Validation(PLAN_QUOTAS["free"], Cardinality(ActiveIds), request',
                      today) # 0)
         => reply' = Validation(PLAN_QUOTAS["free"], Cardinality(ActiveIds),
                                request', today)]_vars

\* a step that makes an inactive alert active
Reactivates(a) ==
    /\ a \in DOMAIN alerts /\ a \in DOMAIN alerts'
    /\ ~alerts[a].is_active
    /\ alerts'[a].is_active

\* a step of process_alert that starts the scan of its alert
ScanStarts == pc = "pa_load" /\ pc' = "pa_slot"

C24_NoOrphanSlot ==
    \A r \in BagToSet(detected) : r.alert_id \in DOMAIN alerts

\* C24, reached: the alert was deleted during a steady scan that had fetched
\* a recorded slot and a new one; the scan has ended and no row is left.
C24_Reached ==
    /\ run.state = "stale"
    /\ ~run.baseline
    /\ run.alert \notin DOMAIN alerts
    /\ Len(run.fetched) = 2
    /\ run.fresh = 1
    /\ detected = EmptyBag

\* C25: the writes of a process_alert run become durable together or not at
\* all, and when a run of a STEADY alert ends, by its commit or by an
\* exception, every slot for which it delivered a notification is persisted.
C25_DeliveredIsPersisted ==
    [][(pc = "pa_slot" /\ pc' # pc)
         => /\ detected' # detected
                 => (CommitStep /\ detected' = detected (+) SeqToBag(pending))
            /\ \A x \in 1..Len(pending) :
                  pending[x].email_sent
                    => CopiesIn(pending[x], detected') > 0]_vars

\* C26: a process_alert run starts only from the for loop, when no run is in
\* progress (the run before it has ended, by its return or by an exception),
\* for the alert at the index of the loop, after the alerts before it in
\* loaded order and before those after it; a fetch starts only in the run in
\* progress; and a pass starts only after the sleep or the backoff that ended
\* the pass before it.
C26_Sequential ==
    [][/\ (pc' = "pa_load" /\ pc # "pa_load")
            => /\ pc = "for"
               /\ cur = 0 /\ pending = <<>> /\ slots = <<>>
               /\ run.state # "running"
               /\ i <= Len(loaded)
               /\ cur' = loaded[i].id
               /\ \A j \in 1..Len(loaded) : loaded[j].id \in invoked => j < i
       /\ (run'.state = "running" /\ run.state # "running")
            => (pc = "pa_load" /\ run'.alert = cur)
       /\ (pc' = "pass" /\ pc # "pass")
            => (pc \in {"sleep", "backoff"} /\ cur' = 0 /\ pending' = <<>>)
       /\ (pc = "pass" /\ pc' # "pass")
            => (run.state # "running" /\ cur = 0)]_vars

\* C26, reached: the run of the first alert of the pass has committed and the
\* run of the second starts.
C26_Reached ==
    /\ pc = "pa_load"
    /\ i = 2
    /\ run.state = "committed"
    /\ run.alert = loaded[1].id
    /\ cur = loaded[2].id

\* the pass has loaded alert a as due and has not yet come to it
Waiting(a) ==
    /\ pc \in {"for", "pa_load", "pa_slot"}
    /\ a \notin invoked
    /\ \E j \in 1..Len(loaded) :
          /\ j >= i
          /\ loaded[j].id = a
          /\ IsDue(loaded[j].last_checked_at,
                   loaded[j].check_interval_minutes, now)

\* alert a is active with a target date that is not passed
Eligible(a) ==
    /\ a \in DOMAIN alerts
    /\ alerts[a].is_active
    /\ ~(alerts[a].target_date < today)

\* C27: under fair scheduling and with a database that stays reachable, an
\* alert that a pass has loaded as due is scanned in the end, unless it stops
\* being active with a target date not passed, even when the processing of
\* the alert loaded before it raises on every pass.
C27_NoStarvation ==
    \A a \in AlertIds :
        [](Waiting(a)
             => <>(\/ run.alert = a /\ run.state = "running"
                   \/ ~Eligible(a)
                   \/ run.state = "lost"))

\* C28: the first scan of an alert after update_alert changed its target
\* date (the scan before it, if any, fetched for another date) is a baseline
\* scan, wherever the update fell relative to the runs of the alert.
C28_FirstScanOfDateIsBaseline ==
    [][(/\ ScanStarts
        /\ run.alert = cur
        /\ run.date # NULL
        /\ run.date # alerts[cur].target_date)
         => is_baseline']_vars

\* the committed rows of the key of candidate s for alert a
RowsOfKey(a, s) ==
    {r \in BagToSet(detected) :
        /\ r.alert_id = a
        /\ r.playground_id = s.playground_id
        /\ r.date = s.date
        /\ r.start_time = s.start_time}

C30_CheckedThenGated ==
    [][/\ (CommitStep /\ cur \in DOMAIN alerts')
            => alerts'[cur].last_checked_at = now
       /\ (pc = "for" /\ pc' = "pa_load" /\ cur' \in DOMAIN alerts)
            => IsDue(alerts[cur'].last_checked_at,
                     alerts[cur'].check_interval_minutes, now)
       /\ (pc \in {"sleep", "backoff"} /\ run.state \notin {"lost", "stale"})
            => \A j \in 1..Len(loaded) :
                  (/\ loaded[j].last_checked_at # NULL
                   /\ IsDue(loaded[j].last_checked_at,
                            loaded[j].check_interval_minutes, now))
                    => loaded[j].id \in invoked]_vars

\* the interval of the tier of the user's plan
PlanInterval ==
    PLAN_QUOTAS[IF subscription = "premium" THEN "premium"
                ELSE "free"]["check_interval_minutes"]

\* C31: no step of the scheduler and no subscription webhook changes the
\* check_interval_minutes of an existing alert, and the for loop invokes or
\* skips an alert by its stored interval, whatever the owner's plan is.
C31_IntervalIsSnapshot ==
    [][/\ \A a \in DOMAIN alerts \cap DOMAIN alerts' :
             alerts'[a].check_interval_minutes
               = alerts[a].check_interval_minutes
       /\ (pc = "for" /\ pc' = "pa_load" /\ cur' \in DOMAIN alerts)
            => IsDue(loaded[i].last_checked_at,
                     alerts[cur'].check_interval_minutes, now)
       /\ (pc = "for" /\ pc' = "for" /\ i' = i + 1
             /\ loaded[i].id \in DOMAIN alerts)
            => ~IsDue(loaded[i].last_checked_at,
                      alerts[loaded[i].id].check_interval_minutes, now)]_vars

\* C31, reached: the subscription was cancelled and the plan is free; the
\* pass comes to the alert stamped with the premium interval when that
\* interval has elapsed and the interval of the free tier has not.
C31_Reached ==
    /\ subscription = "free"
    /\ billing.status = "canceled"
    /\ pc = "for"
    /\ i <= Len(loaded)
    /\ loaded[i].id \in DOMAIN alerts
    /\ alerts[loaded[i].id].check_interval_minutes = PremiumInterval
    /\ loaded[i].last_checked_at # NULL
    /\ IsDue(loaded[i].last_checked_at, PremiumInterval, now)
    /\ ~IsDue(loaded[i].last_checked_at, PlanInterval, now)

\* C32: every stored alert has time_from strictly before time_to.
C32_WindowOrdered ==
    \A a \in DOMAIN alerts : alerts[a].time_from < alerts[a].time_to

\* the quotas of the tier of a user of the alert routes
TierOf(u) == PLAN_QUOTAS[IF u = 1 THEN PlanOf(subscription) ELSE "free"]

\* the row is outside the bounds of the tier on the day
OutsideTier(row, quota, day) ==
    \/ row.target_date < day + quota["min_days_ahead"]
    \/ row.target_date > day + quota["max_days_ahead"]
    \/ Minutes(row.time_to) - Minutes(row.time_from)
         > quota["max_time_window_hours"] * 60

\* C33: an update_alert request of the owner that sets a target date outside
\* the range of the owner's tier, or a window longer than the tier allows, is
\* rejected and leaves the alerts unchanged.
C33_UpdateWithinTier ==
    [][(/\ edits' # edits
        /\ request'.op = "update_alert"
        /\ Owned(alerts, request'.user, request'.alert)
        /\ request'.body.fields \cap {"target_date", "time_from", "time_to"}
             # {}
        /\ OutsideTier(Updated(alerts[request'.alert], request'.body),
                       TierOf(request'.user), today))
         => /\ reply'.status >= 400
            /\ alerts' = alerts]_vars

\* the detected slots of alert a
SlotsOf(det, a) == {r \in BagToSet(det) : r.alert_id = a}

\* C38: a request to the alert routes leaves every alert of another user and
\* its detected slots as they were and returns none of them; update_alert,
\* delete_alert and get_alert_history on an alert that is missing or owned
\* by another user reply 404 and change no alert and no detected slot.
C38_OwnershipIsolation ==
    [][/\ \A a \in DOMAIN alerts :
             alerts[a].user_id # request'.user
               => /\ a \in DOMAIN alerts'
                  /\ alerts'[a] = alerts[a]
                  /\ \A r \in SlotsOf(detected, a) :
                        CopiesIn(r, detected') = CopiesIn(r, detected)
                  /\ a \notin reply'.alerts
                  /\ SlotsOf(detected, a) \cap reply'.slots = {}
       /\ (/\ request'.op \in {"update_alert", "delete_alert",
                               "get_alert_history"}
           /\ \/ request'.alert \notin DOMAIN alerts
              \/ alerts[request'.alert].user_id # request'.user)
            => /\ reply'.status = 404
               /\ reply'.alerts = {} /\ reply'.slots = {}
               /\ alerts' = alerts
               /\ detected' = detected]_vars

\* C38, reached: user 2 asked to delete the alert of user 1, which has a
\* detected slot, and got 404.
C38_Reached ==
    /\ request.op = "delete_alert"
    /\ request.user = 2
    /\ request.alert \in DOMAIN alerts
    /\ alerts[request.alert].user_id = 1
    /\ SlotsOf(detected, request.alert) # {}
    /\ reply.status = 404

\* C34: when process_alert reads an alert that is deleted or not active, the
\* run ends there: no fetch starts, no slot is recorded or pending, no
\* notification attempt is made and no alert changes (baseline_scraped and
\* last_checked_at included), also when the pass loaded the alert as active.
C34_PausedNotScanned ==
    [][(/\ pc = "pa_load"
        /\ pc' # pc
        /\ \/ cur \notin DOMAIN alerts
           \/ ~alerts[cur].is_active)
         => /\ pc' \in {"for", "backoff"}
            /\ run'.state \in {"inactive", "lost"}
            /\ run'.fetched = <<>>
            /\ slots' = <<>> /\ pending' = <<>>
            /\ detected' = detected
            /\ attempts' = attempts
            /\ alerts' = alerts]_vars

\* C34, reached: the pass loaded the alert as active, the owner paused it
\* before its turn, and process_alert returned without a scan.
C34_Reached ==
    /\ pc = "for"
    /\ run.state = "inactive"
    /\ run.alert \in DOMAIN alerts
    /\ ~alerts[run.alert].is_active
    /\ run.alert \in invoked
    /\ \E j \in 1..Len(loaded) : loaded[j].id = run.alert
    /\ alerts[run.alert].last_checked_at = NULL
    /\ ~alerts[run.alert].baseline_scraped

\* the offsets of the range of a scan whose date, counted from day, passes
\* the filter when one is supplied
Surviving(sc, day) ==
    {d \in sc.start_offset..(sc.days_ahead - 1) :
        sc.days_of_week.supplied
          => IsoWeekday(day + d) \in sc.days_of_week.days}

\* the concatenation of the results of the calls
RECURSIVE Concatenated(_)
Concatenated(calls) ==
    IF calls = <<>> THEN <<>>
    ELSE Concatenated(SubSeq(calls, 1, Len(calls) - 1))
           \o calls[Len(calls)].out

\* C35: a scan_multiple_days run that ended on the day it started has called
\* get_available_slots once for each offset of the range whose weekday is in
\* the supplied filter (every offset without a filter), in increasing order,
\* for the date of the offset and for no other, and returns the concatenation
\* of the results.
C35_OncePerSurvivingDate ==
    (scan.state = "done" /\ today = scan.day0) =>
        /\ {scan.calls[j].offset : j \in 1..Len(scan.calls)}
             = Surviving(scan, scan.day0)
        /\ \A j \in 1..Len(scan.calls) :
              /\ scan.calls[j].date = scan.day0 + scan.calls[j].offset
              /\ \A h \in 1..(j - 1) :
                    scan.calls[h].offset < scan.calls[j].offset
        /\ scan.all_slots = Concatenated(scan.calls)

\* C36: in a scan_multiple_days run, a call of get_available_slots starts
\* at least the pacing delay after the call before it returned, whatever
\* that call returned.
C36_PacingFloor ==
    \A j \in 1..(Len(scan.calls) - 1) :
        /\ scan.calls[j].end # NULL
        /\ scan.calls[j + 1].at - scan.calls[j].end >= PacingDelay

\* C36, reached: a call started after a call that failed, and another after
\* a call that returned no slot.
C36_Reached ==
    /\ Len(scan.calls) = 3
    /\ scan.calls[1].outcome = "failed"
    /\ scan.calls[2].outcome = "empty"
    /\ scan.calls[3].at = scan.calls[2].end + PacingDelay

\* C37: every candidate returned comes from a bookable price option of its
\* court and start time with: price_total (in cents) = pricePerParticipant
\* times participantCount, duration_minutes = duration (seconds) divided by
\* 60, rounded down, where an absent pricePerParticipant counts as 0, an
\* absent participantCount as 4 and an absent duration as 5400.
C37_PriceAndDuration ==
    (result.called /\ ~UpstreamFailed)
      => \A c \in Range(result.out) :
            \E o \in OptionsWith("true") :
               LET court == response.data.member[o[1]]
                   slot == court.activities[o[2]].slots[o[3]]
                   price == slot.prices[o[4]]
                   per_person == IF price.pricePerParticipant = MISSING
                                 THEN 0 ELSE price.pricePerParticipant
                   count == IF price.participantCount = MISSING
                            THEN 4 ELSE price.participantCount
                   seconds == IF price.duration = MISSING
                              THEN 5400 ELSE price.duration
               IN  /\ c.playground_id = court.id
                   /\ c.start_time = slot.startAt
                   /\ c.price_total = per_person * count
                   /\ c.duration_minutes = seconds \div 60

\* C37, reached: the call returned a candidate of 30.75 for 90 minutes, from
\* the option of 10.25 for each of three participants and 5430 seconds, and
\* a candidate of 40.00 from an option without participantCount.
C37_Reached ==
    /\ result.called
    /\ Len(result.out) = 2
    /\ result.out[1].price_total = 3075
    /\ result.out[1].duration_minutes = 90
    /\ result.out[2].price_total = 4000
    /\ response.data.member[2].activities[1].slots[1].prices[1]
         .participantCount = MISSING

\* the boosts of the user: 0 without a row of user_boosts
Boosts == IF billing.boost_count = NULL THEN 0 ELSE billing.boost_count

\* the sum of boost_count over a set of checkout sessions
RECURSIVE SumBoosts(_)
SumBoosts(S) ==
    IF S = {} THEN 0
    ELSE LET s == CHOOSE x \in S : TRUE
         IN  s.boost_count + SumBoosts(S \ {s})

\* the paid checkout sessions whose event was delivered at least once
Delivered ==
    {s \in billing.paid :
        \E n \in 1..Len(billing.purchases) :
            billing.purchases[n].stripe_payment_intent_id = s.payment_intent}

\* C39: after any sequence of deliveries of checkout.session.completed, the
\* same event delivered again included, the user's boost_count is the sum
\* of boost_count over the distinct boost checkouts paid and delivered, and
\* every credit stands with its BoostPurchase row (the counter is the sum
\* over the rows of boost_purchases).
C39_CreditedOncePerCheckout ==
    /\ Boosts = SumBoosts(Delivered)
    /\ Boosts = SumBoosts({[n |-> n,
                            boost_count |-> billing.purchases[n].boost_count]
                              : n \in 1..Len(billing.purchases)})

=============================================================================
